---- MODULE Spec2Model ----
(***************************************************************************)
(* Verification model of the checkpointed annotation pipeline:             *)
(*   - ConversationProcessor   (src/utils/conv_processor.py)               *)
(*   - GroqProcessor           (src/utils/qroq/groq_processor.py)          *)
(*   - GroqMapper              (src/utils/qroq/groq_mapper.py)             *)
(* Indices (start_index, i, j, current_index) are 0-based as in the        *)
(* source; sequences are 1-based, so conversations[i] is written           *)
(* conversations[i + 1].                                                   *)
(***************************************************************************)
EXTENDS Integers, Sequences, FiniteSets, TLC

\* ---------------------------------------------------------------- bounds
NumConversations == 3
MaxBatchSize == 2
MaxWorkers == 2
MaxCrashes == 1

\* ------------------------------------------------------ program constants
\* analysis = None (Conversation.analysis default)
None == [kind |-> "None"]
\* a ConversationMap attached by a mapper, contents abstracted
ConversationMap == [kind |-> "ConversationMap"]

VARIABLES
    proc,                  \* which processor class runs: "conv" | "groq"
    batch_size,            \* self.batch_size
    max_concurrent_requests, \* self.max_concurrent_requests
    results_file,          \* ConversationProcessor.results_file on disk
    conversations_file,    \* GroqProcessor.conversations_file on disk
    progress_file,         \* progress_file on disk (the checkpoint)
    pc,                    \* position of the orchestrating coroutine
    conversations,         \* the list being processed in this run
    start_index,           \* argument start_index of the run
    i,                     \* batch loop variable
    j,                     \* index of the future being collected
    work,                  \* work items held by the ThreadPoolExecutor
    base,                  \* number of older work items before futures[0]
    batch_processed,       \* list batch_processed (ConversationProcessor)
    updated_conversations, \* list updated_conversations (GroqProcessor)
    total_processed,       \* total_processed
    successful_count,      \* successful_count of the current batch
    failed_count,          \* failed_count of the current batch
    observed,              \* what the orchestrator saw for each future of the batch
    written,               \* slots whose task outcome update_conversations_file flushed
    crashed_at,            \* pc at which the process was killed, "none" if alive
    crashes,               \* number of kills so far
    resume_consistent,     \* at entry: results_file held exactly conversations[0:start_index]
    mpc,                   \* position inside GroqMapper.map_conversation
    attempt,               \* loop variable of the retry loop being executed
    trace,                 \* oracle calls answered and time.sleep calls made, in order
    ux_analysis,           \* local ux_analysis of map_conversation
    request_category,      \* local request_category of map_conversation
    result,                \* dict returned by process_conversation_sync
    file_entry,            \* the conversation's entry written to conversations_file
    ppc,                   \* position inside ConversationParser.parse_conversations
    df,                    \* self.df: the rows read from the CSV file, in file order
    df_segmented,          \* column dialogue_id of df_with_conversations, row by row
    parsed,                \* list conversations returned by parse_conversations
    dpc,                   \* position of the caller of ProblemDetector.detect_problems
    latency_threshold,     \* self.latency_threshold, in seconds
    dconv,                 \* the conversation handed to detect_problems
    dproblems,             \* the problems detect_problems returned, as a set
    io_fault,              \* the file operation that failed in this run, or "none"
    store_before,          \* the records the store held when that operation began
    discarded,             \* the files resume_processing_prompt removed for this run
    vpc,                   \* position of the caller of validate_request_category
    vrequest,              \* the RequestCategory handed to validate_request_category
    validated              \* the RequestCategory it returned

pipeVars == <<proc, batch_size, max_concurrent_requests, results_file,
              conversations_file, progress_file, pc, conversations, start_index,
              i, j, work, base, batch_processed, updated_conversations,
              total_processed, successful_count, failed_count, observed,
              written, crashed_at, crashes, resume_consistent>>

mapVars == <<mpc, attempt, trace, ux_analysis, request_category, result, file_entry>>

parseVars == <<ppc, df, df_segmented, parsed>>

detVars == <<dpc, latency_threshold, dconv, dproblems>>

ioVars == <<io_fault, store_before, discarded>>

valVars == <<vpc, vrequest, validated>>

vars == <<pipeVars, mapVars, parseVars, detVars, ioVars, valVars>>

\* ------------------------------------------------------------ data model
DialogueId(p) == 100 + p

\* Conversation objects produced by the parser: analysis is None
ParsedConversations ==
    [p \in 1..NumConversations |->
        [dialogue_id |-> DialogueId(p),
         duration_minutes |-> 15,
         full_text |-> "error a",
         blocks |-> <<[block_type |-> "user", text |-> "error"],
                      [block_type |-> "system", text |-> "a"]>>,
         analysis |-> None]]

NoFile == [exists |-> FALSE, conversations |-> <<>>]
NoProgress == [exists |-> FALSE, current_index |-> 0, total_count |-> 0]

Min(a, b) == IF a < b THEN a ELSE b

Range(s) == {s[k] : k \in 1..Len(s)}

\* what mapper.map_conversation(conversation) can do for its caller: raise,
\* return the conversation unmodified, or return a copy with an analysis
MapperReturns(conversation) ==
    {[raised |-> TRUE, conversation |-> conversation],
     [raised |-> FALSE, conversation |-> conversation],
     [raised |-> FALSE, conversation |-> [conversation EXCEPT !.analysis = ConversationMap]]}

\* process_conversation_sync: wrap map_conversation, catching Exception
process_conversation_sync(conversation, mapped) ==
    IF mapped.raised
    THEN [conversation |-> conversation, success |-> FALSE]
    ELSE [conversation |-> mapped.conversation, success |-> TRUE]

\* ConversationProcessor.conversation_to_dict: reads the flat fields
\* conv.analysis.sentiment, ... which a ConversationMap (request/problems/ux)
\* does not have: AttributeError when analysis is set.
conv_conversation_to_dict(conv) ==
    IF conv.analysis = None
    THEN [raised |-> FALSE, dict |-> [dialogue_id |-> conv.dialogue_id, analysis |-> None]]
    ELSE [raised |-> TRUE, dict |-> [dialogue_id |-> conv.dialogue_id, analysis |-> None]]

\* GroqProcessor.conversation_to_dict: structured schema
groq_conversation_to_dict(conv) ==
    [dialogue_id |-> conv.dialogue_id, analysis |-> conv.analysis]

\* save_results that puts the new records in front of the stored ones
save_results_prepend(file, conversations_dict, append_mode) ==
    IF append_mode /\ file.exists
    THEN [exists |-> TRUE, conversations |-> conversations_dict \o file.conversations]
    ELSE [exists |-> TRUE, conversations |-> conversations_dict]

\* save_results that forgets append_mode and always creates a new file
save_results_overwrite(file, conversations_dict, append_mode) ==
    [exists |-> TRUE, conversations |-> conversations_dict]

\* ConversationProcessor.save_results
save_results(file, conversations_dict, append_mode) ==
    IF append_mode /\ file.exists
    THEN [exists |-> TRUE, conversations |-> file.conversations \o conversations_dict]
    ELSE [exists |-> TRUE, conversations |-> conversations_dict]

\* a save_progress that records the run as complete
save_progress_total(current_index, total_count) ==
    [exists |-> TRUE, current_index |-> total_count, total_count |-> total_count]

\* save_progress (both classes)
save_progress(current_index, total_count) ==
    [exists |-> TRUE, current_index |-> current_index, total_count |-> total_count]

\* GroqProcessor.update_conversations_file
update_conversations_file(file, updated) ==
    [file EXCEPT !.conversations =
        [k \in 1..Len(file.conversations) |->
            IF k <= Len(updated)
            THEN groq_conversation_to_dict(updated[k])
            ELSE file.conversations[k]]]

\* GroqProcessor.load_conversations_from_file
load_conversations_from_file(file) ==
    [k \in 1..Len(file.conversations) |->
        [dialogue_id |-> file.conversations[k].dialogue_id,
         analysis |-> file.conversations[k].analysis]]

\* a future that has not produced a result yet
NoResult == [conversation |-> [dialogue_id |-> 0, analysis |-> None], success |-> FALSE]

\* ------------------------------------------------------------------ Init
InitPipe ==
    /\ proc \in {"conv", "groq"}
    /\ batch_size \in 1..MaxBatchSize
    /\ max_concurrent_requests \in 1..MaxWorkers
    /\ results_file = NoFile
    /\ conversations_file =
           [exists |-> TRUE,
            conversations |-> [p \in 1..NumConversations |->
                                  groq_conversation_to_dict(ParsedConversations[p])]]
    /\ progress_file = NoProgress
    /\ pc = "idle"
    /\ conversations = ParsedConversations
    /\ start_index = 0
    /\ i = 0
    /\ j = 0
    /\ work = <<>>
    /\ base = 0
    /\ batch_processed = <<>>
    /\ updated_conversations = ParsedConversations
    /\ total_processed = 0
    /\ successful_count = 0
    /\ failed_count = 0
    /\ observed = <<>>
    /\ written = {}
    /\ crashed_at = "none"
    /\ crashes = 0
    /\ resume_consistent = TRUE
    /\ io_fault = "none"
    /\ store_before = <<>>
    /\ discarded = [progress |-> NoProgress, results |-> NoFile]

\* --------------------------------------------------------------- helpers
batch_end == Min(i + batch_size, Len(conversations))
\* batch = conversations[i:batch_end]
batch == SubSeq(conversations, i + 1, batch_end)

\* results_file holds exactly the records of conversations[0:k]
HoldsExactlyFirst(file, k) ==
    /\ Len(file.conversations) = k
    /\ \A p \in 1..k : file.conversations[p].dialogue_id = DialogueId(p)

Running == {k \in 1..Len(work) : work[k].st = "running"}

\* ---------------------------------------------------------- run entry
\* a cleanup_progress that leaves the progress file where it is
cleanup_progress_keep(file) == file

\* ConversationProcessor.cleanup_progress: os.remove(self.progress_file)
cleanup_progress(file) == NoProgress

\* os.remove(self.results_file) of resume_processing_prompt
remove_results_file(file) == NoFile

\* ConversationProcessor.resume_processing_prompt followed by the entry of
\* process_conversations_concurrent(conversations, start_index)
ConvStart(answer) ==
    /\ proc = "conv"
    /\ pc \in {"idle", "crashed"}
    /\ LET resume == progress_file.exists /\ answer = "y"
           fresh == progress_file.exists /\ answer # "y"
           start == IF resume THEN progress_file.current_index ELSE 0
           rfile == IF fresh THEN remove_results_file(results_file) ELSE results_file
       IN /\ progress_file' = IF fresh THEN cleanup_progress(progress_file)
                               ELSE progress_file
          /\ results_file' = rfile
          /\ discarded' = IF fresh
                          THEN [progress |-> progress_file, results |-> results_file]
                          ELSE [progress |-> NoProgress, results |-> NoFile]
          /\ start_index' = start
          /\ total_processed' = start
          /\ i' = start
          /\ resume_consistent' = HoldsExactlyFirst(rfile, start)
    /\ conversations' = ParsedConversations
    /\ pc' = "loop"
    /\ crashed_at' = "none"
    /\ j' = 0 /\ work' = <<>> /\ base' = 0 /\ batch_processed' = <<>>
    /\ successful_count' = 0 /\ failed_count' = 0 /\ observed' = <<>>
    /\ UNCHANGED <<mapVars, parseVars, detVars, io_fault, store_before, valVars>>
    /\ UNCHANGED <<proc, batch_size, max_concurrent_requests, conversations_file,
                   updated_conversations, written, crashes>>

\* GroqProcessor.get_resume_info followed by the entry of
\* process_ux_and_intent_analysis(start_index)
GroqStart ==
    /\ proc = "groq"
    /\ pc \in {"idle", "crashed"}
    /\ LET start == IF progress_file.exists THEN progress_file.current_index ELSE 0
           loaded == load_conversations_from_file(conversations_file)
       IN /\ start_index' = start
          /\ total_processed' = start
          /\ i' = start
          /\ conversations' = loaded
          /\ updated_conversations' = loaded
    /\ pc' = "loop"
    /\ crashed_at' = "none"
    /\ j' = 0 /\ work' = <<>> /\ base' = 0 /\ batch_processed' = <<>>
    /\ successful_count' = 0 /\ failed_count' = 0 /\ observed' = <<>>
    /\ UNCHANGED <<mapVars, parseVars, detVars, ioVars, valVars>>
    /\ UNCHANGED <<proc, batch_size, max_concurrent_requests, results_file,
                   conversations_file, progress_file, written, crashes,
                   resume_consistent>>

\* ------------------------------------------------------------ batch loop
\* for i in range(start_index, len(conversations), batch_size): submit the batch
SubmitBatch ==
    /\ pc = "loop"
    /\ i < Len(conversations)
    /\ LET pending == SelectSeq(work, LAMBDA w : w.st # "done")
           futures == [k \in 1..(batch_end - i) |->
                          [idx |-> i + k - 1, st |-> "queued", result |-> NoResult]]
       IN /\ work' = pending \o futures
          /\ base' = Len(pending)
    /\ j' = 0
    /\ batch_processed' = <<>>
    /\ successful_count' = 0
    /\ failed_count' = 0
    /\ observed' = <<>>
    /\ pc' = "collect"
    /\ UNCHANGED <<mapVars, parseVars, detVars, ioVars, valVars>>
    /\ UNCHANGED <<proc, batch_size, max_concurrent_requests, results_file,
                   conversations_file, progress_file, conversations, start_index,
                   i, updated_conversations, total_processed, written,
                   crashed_at, crashes, resume_consistent>>

\* an executor that starts a thread for every submitted work item
worker_available_unbounded(running, max_workers) == TRUE

\* ThreadPoolExecutor(max_workers=...): a work item is taken only by one of
\* at most max_workers threads, each running one work item at a time
worker_available(running, max_workers) == Cardinality(running) < max_workers

\* a pool thread takes the oldest queued work item
TaskStart(k) ==
    /\ k \in 1..Len(work)
    /\ work[k].st = "queued"
    /\ \A m \in 1..(k - 1) : work[m].st # "queued"
    /\ worker_available(Running, max_concurrent_requests)
    /\ work' = [work EXCEPT ![k].st = "running"]
    /\ UNCHANGED <<mapVars, parseVars, detVars, ioVars, valVars>>
    /\ UNCHANGED <<proc, batch_size, max_concurrent_requests, results_file,
                   conversations_file, progress_file, pc, conversations,
                   start_index, i, j, base, batch_processed,
                   updated_conversations, total_processed, successful_count,
                   failed_count, observed, written, crashed_at, crashes,
                   resume_consistent>>

\* a worker that stores its own record in the result store
worker_file_effect_append(file, task_result) ==
    [exists |-> TRUE,
     conversations |-> Append(file.conversations,
                              [dialogue_id |-> task_result.conversation.dialogue_id,
                               analysis |-> None])]

\* what process_conversation_sync does to a file of the pipeline: nothing,
\* it only returns its dict to the future
worker_file_effect(file, task_result) == file

\* the work item returns from process_conversation_sync
TaskFinish(k) ==
    /\ k \in 1..Len(work)
    /\ work[k].st = "running"
    /\ \E mapped \in MapperReturns(conversations[work[k].idx + 1]) :
           LET task_result == process_conversation_sync(
                                  conversations[work[k].idx + 1], mapped)
           IN /\ work' = [work EXCEPT ![k].st = "done", ![k].result = task_result]
              /\ results_file' = worker_file_effect(results_file, task_result)
    /\ UNCHANGED <<mapVars, parseVars, detVars, ioVars, valVars>>
    /\ UNCHANGED <<proc, batch_size, max_concurrent_requests,
                   conversations_file, progress_file, pc, conversations,
                   start_index, i, j, base, batch_processed,
                   updated_conversations, total_processed, successful_count,
                   failed_count, observed, written, crashed_at, crashes,
                   resume_consistent>>

\* futures[j] of the current batch
Future(k) == work[base + k + 1]

\* the collection step with an except branch that only counts the failure
\* and drops the conversation
conv_collect_drop(future, batch_j, timed_out) ==
    IF timed_out \/ ~future.result.success
           \/ conv_conversation_to_dict(future.result.conversation).raised
    THEN [appended |-> <<>>,
          successful |-> 0, failed |-> 1, seen |-> IF timed_out THEN "timeout" ELSE "failed",
          propagated |-> FALSE]
    ELSE [appended |-> <<conv_conversation_to_dict(future.result.conversation).dict>>,
          successful |-> 1, failed |-> 0, seen |-> "success", propagated |-> FALSE]

\* the collection step without the "except Exception" around future.result
conv_collect_reraise(future, batch_j, timed_out) ==
    IF timed_out
    THEN [appended |-> <<>>, successful |-> 0, failed |-> 0, seen |-> "timeout",
          propagated |-> TRUE]
    ELSE [appended |-> <<conv_conversation_to_dict(batch_j).dict>>,
          successful |-> IF future.result.success THEN 1 ELSE 0,
          failed |-> IF future.result.success THEN 0 ELSE 1,
          seen |-> IF future.result.success THEN "success" ELSE "failed",
          propagated |-> FALSE]

\* the collection step whose except branch records what the future holds
conv_collect_future_result(future, batch_j, timed_out) ==
    IF timed_out
    THEN [appended |-> <<[dialogue_id |-> future.result.conversation.dialogue_id,
                          analysis |-> None]>>,
          successful |-> 0, failed |-> 1, seen |-> "timeout", propagated |-> FALSE]
    ELSE [appended |-> <<conv_conversation_to_dict(batch_j).dict>>,
          successful |-> IF future.result.success THEN 1 ELSE 0,
          failed |-> IF future.result.success THEN 0 ELSE 1,
          seen |-> IF future.result.success THEN "success" ELSE "failed",
          propagated |-> FALSE]

\* ConversationProcessor: body of "for j, future in enumerate(futures)"
\* for one future; timed_out is future.result(timeout=120) raising
conv_collect(future, batch_j, timed_out) ==
    IF timed_out
    THEN [appended |-> <<conv_conversation_to_dict(batch_j).dict>>,
          successful |-> 0, failed |-> 1, seen |-> "timeout", propagated |-> FALSE]
    ELSE IF future.result.success
    THEN LET d == conv_conversation_to_dict(future.result.conversation)
         IN IF ~d.raised
            THEN [appended |-> <<d.dict>>,
                  successful |-> 1, failed |-> 0, seen |-> "success", propagated |-> FALSE]
            ELSE [appended |-> <<conv_conversation_to_dict(batch_j).dict>>,
                  successful |-> 0, failed |-> 1, seen |-> "error", propagated |-> FALSE]
    ELSE [appended |-> <<conv_conversation_to_dict(future.result.conversation).dict>>,
          successful |-> 0, failed |-> 1, seen |-> "failed", propagated |-> FALSE]

\* GroqProcessor: body of "for j, future in enumerate(futures)" for one future
groq_collect(future, slot, timed_out) ==
    IF timed_out
    THEN [slot |-> slot, successful |-> 0, failed |-> 1, seen |-> "timeout",
          propagated |-> FALSE]
    ELSE IF future.result.success
    THEN [slot |-> future.result.conversation, successful |-> 1, failed |-> 0,
          seen |-> "success", propagated |-> FALSE]
    ELSE [slot |-> slot, successful |-> 0, failed |-> 1, seen |-> "failed",
          propagated |-> FALSE]

\* a collection loop that is left after its first future
collect_next_pc_first_only(processor, collected, n) ==
    IF processor = "conv" THEN "save_results" ELSE "save_progress"

\* "for j, future in enumerate(futures)": the loop goes on until every
\* future of the batch has been waited for; then the batch is saved
collect_next_pc(processor, collected, n) ==
    IF collected < n THEN "collect"
    ELSE IF processor = "conv" THEN "save_results" ELSE "save_progress"

\* the orchestrator handles futures[j]; timed_out only if it is not done
Collect(timed_out) ==
    /\ pc = "collect"
    /\ j < Len(batch)
    /\ timed_out = (Future(j).st # "done")
    /\ LET c == conv_collect(Future(j), batch[j + 1], timed_out)
           g == groq_collect(Future(j), updated_conversations[i + j + 1], timed_out)
           r == IF proc = "conv" THEN c ELSE g
       IN /\ batch_processed' =
                 IF proc = "conv" THEN batch_processed \o c.appended ELSE batch_processed
          /\ updated_conversations' =
                 IF proc = "groq"
                 THEN [updated_conversations EXCEPT ![i + j + 1] = g.slot]
                 ELSE updated_conversations
          /\ successful_count' = successful_count + r.successful
          /\ failed_count' = failed_count + r.failed
          /\ observed' = Append(observed, r.seen)
          /\ pc' = IF r.propagated THEN "aborted"
                   ELSE collect_next_pc(proc, j + 1, Len(batch))
    /\ j' = j + 1
    /\ UNCHANGED <<mapVars, parseVars, detVars, ioVars, valVars>>
    /\ UNCHANGED <<proc, batch_size, max_concurrent_requests, results_file,
                   conversations_file, progress_file, conversations, start_index,
                   i, work, base, total_processed, written, crashed_at, crashes,
                   resume_consistent>>

\* ConversationProcessor: save batch results incrementally
ConvSaveResults ==
    /\ proc = "conv"
    /\ pc = "save_results"
    /\ results_file' = save_results(results_file, batch_processed,
                                    ~(start_index = 0 /\ i = 0))
    /\ pc' = "save_progress"
    /\ UNCHANGED <<mapVars, parseVars, detVars, ioVars, valVars>>
    /\ UNCHANGED <<proc, batch_size, max_concurrent_requests, conversations_file,
                   progress_file, conversations, start_index, i, j, work, base,
                   batch_processed, updated_conversations, total_processed,
                   successful_count, failed_count, observed, written, crashed_at,
                   crashes, resume_consistent>>

\* ConversationProcessor: total_processed += len(batch); save_progress(...)
ConvSaveProgress ==
    /\ proc = "conv"
    /\ pc = "save_progress"
    /\ total_processed' = total_processed + Len(batch)
    /\ progress_file' = save_progress(total_processed + Len(batch), Len(conversations))
    /\ pc' = "sleep"
    /\ UNCHANGED <<mapVars, parseVars, detVars, ioVars, valVars>>
    /\ UNCHANGED <<proc, batch_size, max_concurrent_requests, results_file,
                   conversations_file, conversations, start_index, i, j, work, base,
                   batch_processed, updated_conversations, successful_count,
                   failed_count, observed, written, crashed_at, crashes,
                   resume_consistent>>

\* GroqProcessor: total_processed += len(batch); save_progress(...)
GroqSaveProgress ==
    /\ proc = "groq"
    /\ pc = "save_progress"
    /\ total_processed' = total_processed + Len(batch)
    /\ progress_file' = save_progress(total_processed + Len(batch), Len(conversations))
    /\ pc' = "update_file"
    /\ UNCHANGED <<mapVars, parseVars, detVars, ioVars, valVars>>
    /\ UNCHANGED <<proc, batch_size, max_concurrent_requests, results_file,
                   conversations_file, conversations, start_index, i, j, work, base,
                   batch_processed, updated_conversations, successful_count,
                   failed_count, observed, written, crashed_at, crashes,
                   resume_consistent>>

\* GroqProcessor: update_conversations_file(updated_conversations)
GroqUpdateFile ==
    /\ proc = "groq"
    /\ pc = "update_file"
    /\ conversations_file' =
           update_conversations_file(conversations_file, updated_conversations)
    /\ written' = written \cup (start_index..(total_processed - 1))
    /\ pc' = "sleep"
    /\ UNCHANGED <<mapVars, parseVars, detVars, ioVars, valVars>>
    /\ UNCHANGED <<proc, batch_size, max_concurrent_requests, results_file,
                   progress_file, conversations, start_index, i, j, work, base,
                   batch_processed, updated_conversations, total_processed,
                   successful_count, failed_count, observed, crashed_at, crashes,
                   resume_consistent>>

\* ------------------------------------------------- failing file operations
\* where a file operation of save_results / save_progress /
\* update_conversations_file can fail: reading the file back, opening it for
\* writing (nothing written), or json.dump into the opened, truncated file
IoFaults == {"read", "open", "dump"}

\* a file whose writing stopped after open(..., 'w'): no record can be read
TruncatedFile == [exists |-> TRUE, conversations |-> <<>>]

\* ConversationProcessor.save_results with a failing file operation: a failed
\* read is caught ("If file is corrupted, create new"), a failed write raises
save_results_fault(file, conversations_dict, append_mode, fault) ==
    IF fault = "read"
    THEN [raised |-> FALSE,
          file |-> [exists |-> TRUE, conversations |-> conversations_dict]]
    ELSE IF fault = "open"
    THEN [raised |-> TRUE, file |-> file]
    ELSE [raised |-> TRUE, file |-> TruncatedFile]

\* GroqProcessor.update_conversations_file with a failing file operation:
\* nothing is caught
update_conversations_file_fault(file, fault) ==
    IF fault = "dump"
    THEN [raised |-> TRUE, file |-> TruncatedFile]
    ELSE [raised |-> TRUE, file |-> file]

\* save_progress with a failing file operation: nothing is caught; a
\* truncated progress file is one load_progress reads nothing from
save_progress_fault(file, fault) ==
    IF fault = "dump"
    THEN [raised |-> TRUE, file |-> NoProgress]
    ELSE [raised |-> TRUE, file |-> file]

\* ConversationProcessor: save_results(batch_processed, ...) hits a failure
ConvSaveResultsFault(fault) ==
    /\ proc = "conv"
    /\ pc = "save_results"
    /\ io_fault = "none"
    /\ fault = "read" => (~(start_index = 0 /\ i = 0) /\ results_file.exists)
    /\ LET r == save_results_fault(results_file, batch_processed,
                                   ~(start_index = 0 /\ i = 0), fault)
       IN /\ results_file' = r.file
          /\ pc' = IF r.raised THEN "failed" ELSE "save_progress"
    /\ io_fault' = fault
    /\ store_before' = results_file.conversations
    /\ UNCHANGED <<mapVars, parseVars, detVars, discarded, valVars>>
    /\ UNCHANGED <<proc, batch_size, max_concurrent_requests, conversations_file,
                   progress_file, conversations, start_index, i, j, work, base,
                   batch_processed, updated_conversations, total_processed,
                   successful_count, failed_count, observed, written, crashed_at,
                   crashes, resume_consistent>>

\* either processor: save_progress(...) hits a failure while writing
SaveProgressFault(fault) ==
    /\ pc = "save_progress"
    /\ io_fault = "none"
    /\ fault # "read"
    /\ total_processed' = total_processed + Len(batch)
    /\ LET r == save_progress_fault(progress_file, fault)
       IN /\ progress_file' = r.file
          /\ pc' = IF r.raised THEN "failed" ELSE pc
    /\ io_fault' = "progress"
    /\ store_before' = IF proc = "conv" THEN results_file.conversations
                       ELSE conversations_file.conversations
    /\ UNCHANGED <<mapVars, parseVars, detVars, discarded, valVars>>
    /\ UNCHANGED <<proc, batch_size, max_concurrent_requests, results_file,
                   conversations_file, conversations, start_index, i, j, work, base,
                   batch_processed, updated_conversations, successful_count,
                   failed_count, observed, written, crashed_at, crashes,
                   resume_consistent>>

\* GroqProcessor: update_conversations_file(...) hits a failure
GroqUpdateFileFault(fault) ==
    /\ proc = "groq"
    /\ pc = "update_file"
    /\ io_fault = "none"
    /\ LET r == update_conversations_file_fault(conversations_file, fault)
       IN /\ conversations_file' = r.file
          /\ pc' = IF r.raised THEN "failed" ELSE pc
    /\ io_fault' = fault
    /\ store_before' = conversations_file.conversations
    /\ UNCHANGED <<mapVars, parseVars, detVars, discarded, valVars>>
    /\ UNCHANGED <<proc, batch_size, max_concurrent_requests, results_file,
                   progress_file, conversations, start_index, i, j, work, base,
                   batch_processed, updated_conversations, total_processed,
                   successful_count, failed_count, observed, written, crashed_at,
                   crashes, resume_consistent>>

\* await asyncio.sleep(1), then the next iteration of the batch loop
Sleep ==
    /\ pc = "sleep"
    /\ i' = i + batch_size
    /\ pc' = "loop"
    /\ UNCHANGED <<mapVars, parseVars, detVars, ioVars, valVars>>
    /\ UNCHANGED <<proc, batch_size, max_concurrent_requests, results_file,
                   conversations_file, progress_file, conversations, start_index,
                   j, work, base, batch_processed, updated_conversations,
                   total_processed, successful_count, failed_count, observed,
                   written, crashed_at, crashes, resume_consistent>>

\* the batch loop is exhausted; leaving the "with ThreadPoolExecutor" block
\* waits for every work item still in the pool
Finish ==
    /\ pc = "loop"
    /\ i >= Len(conversations)
    /\ \A k \in 1..Len(work) : work[k].st = "done"
    /\ pc' = "done"
    /\ UNCHANGED <<mapVars, parseVars, detVars, ioVars, valVars>>
    /\ UNCHANGED <<proc, batch_size, max_concurrent_requests, results_file,
                   conversations_file, progress_file, conversations, start_index,
                   i, j, work, base, batch_processed, updated_conversations,
                   total_processed, successful_count, failed_count, observed,
                   written, crashed_at, crashes, resume_consistent>>

\* the process is killed; files stay as they are, threads are gone
Crash ==
    /\ pc \in {"loop", "collect", "save_results", "save_progress", "update_file", "sleep"}
    /\ crashes < MaxCrashes
    /\ crashed_at' = pc
    /\ pc' = "crashed"
    /\ crashes' = crashes + 1
    /\ work' = <<>>
    /\ UNCHANGED <<mapVars, parseVars, detVars, ioVars, valVars>>
    /\ UNCHANGED <<proc, batch_size, max_concurrent_requests, results_file,
                   conversations_file, progress_file, conversations, start_index,
                   i, j, base, batch_processed, updated_conversations,
                   total_processed, successful_count, failed_count, observed,
                   written, resume_consistent>>

\* --------------------------------------- ProblemDetector (problem_eda.py)
MaxBlocks == 2
\* latency_threshold_seconds default
default_latency_threshold == 10
seconds_per_minute == 60

ProblemType ==
    {"technical_issues", "user_confusion", "system_limitations",
     "missing_information", "routing_error", "performance_latency"}

\* ProblemDetector._init_keywords, some keywords of every list; the texts of
\* the model are single tokens, a keyword is found in a text that is it
keywords ==
    [technical_issues |-> {"error", "timeout", "crash"},
     user_confusion |-> {"confused", "unclear"},
     system_limitations |-> {"limitation", "restricted"},
     missing_information |-> {"not found", "no data"},
     routing_error |-> {"misrouted", "wrong department"}]

\* thresholds a ProblemDetector can be built with
LatencyThresholds == {default_latency_threshold, seconds_per_minute}
\* duration_minutes of the conversations looked at
DurationsMinutes == {0, 1, 15}
\* the blocks a conversation can hold
DetectorBlocks ==
    {[block_type |-> t, text |-> x] : t \in {"user", "system", "agent"},
                                       x \in {"a", "error"}}

\* ProblemDetector._get_conversation_text, as the set of the texts joined
get_conversation_text(conversation) ==
    IF conversation.blocks # <<>>
    THEN {conversation.blocks[k].text : k \in 1..Len(conversation.blocks)}
    ELSE {conversation.full_text}

\* ProblemDetector._has_keywords
has_keywords(text, words) == text \cap words # {}

\* ProblemDetector._has_performance_latency
has_performance_latency(conversation, threshold) ==
    IF conversation.blocks = <<>>
    THEN conversation.duration_minutes * seconds_per_minute > threshold
    ELSE LET user_blocks == SelectSeq(conversation.blocks,
                                      LAMBDA b : b.block_type = "user")
             system_blocks == SelectSeq(conversation.blocks,
                                        LAMBDA b : b.block_type = "system")
         IN IF user_blocks = <<>> \/ system_blocks = <<>>
            THEN FALSE
            ELSE conversation.duration_minutes * seconds_per_minute > threshold

\* ProblemDetector.detect_problems, the returned list as a set
detect_problems(conversation, threshold) ==
    {problem_type \in DOMAIN keywords :
        has_keywords(get_conversation_text(conversation), keywords[problem_type])}
    \cup (IF has_performance_latency(conversation, threshold)
          THEN {"performance_latency"} ELSE {})

\* ------------------------------------------------- GroqMapper, one call
max_retries == 3
\* sentiment_confidence is kept in tenths: 0.5 is 5
default_confidence == 5
confidence_scale == 10

\* the conversation handed to map_conversation
MapperConversation == ParsedConversations[1]

SentimentType == {"positive", "negative", "neutral"}

IntentType ==
    {"technical_help", "process_question", "general_info", "product_info",
     "organization_info", "source_request", "statistics", "coordination",
     "feedback", "project_task", "task_management", "hr_request",
     "meeting_management", "faq_usage", "design_request"}

\* conversation.get_category_for_intent
get_category_for_intent(intent) ==
    CASE intent \in {"general_info", "product_info", "organization_info",
                     "source_request", "statistics"} -> "information"
      [] intent \in {"coordination", "feedback"} -> "communication"
      [] intent \in {"project_task", "task_management"} -> "project_tasks"
      [] intent = "hr_request" -> "hr"
      [] intent = "meeting_management" -> "organizational"
      [] intent = "technical_help" -> "tech_support"
      [] intent = "faq_usage" -> "faq"
      [] intent = "design_request" -> "design_request"
      [] intent = "process_question" -> "other"
      [] OTHER -> "other"

\* how the oracle can answer one chat.completions.create call
OracleOutcomes == {"ok", "rate_limited", "timeout", "other"}

EmotionType == {"frustration", "satisfaction", "confusion", "urgency"}

\* message contents the oracle can return for the UX prompt
UxResponses ==
    {[json |-> TRUE, sentiment |-> "positive", sentiment_confidence |-> 9,
      emotions |-> <<"satisfaction">>, is_successful |-> FALSE],
     [json |-> TRUE, sentiment |-> "neutral", sentiment_confidence |-> 5,
      emotions |-> <<>>, is_successful |-> TRUE],
     [json |-> TRUE, sentiment |-> "angry", sentiment_confidence |-> 8,
      emotions |-> <<"frustration", "rage">>, is_successful |-> FALSE],
     [json |-> TRUE, sentiment |-> "negative", sentiment_confidence |-> 15,
      emotions |-> <<"frustration">>, is_successful |-> FALSE],
     [json |-> FALSE, sentiment |-> "", sentiment_confidence |-> 0,
      emotions |-> <<>>, is_successful |-> FALSE]}

\* message contents the oracle can return for the intent prompt
IntentResponses ==
    {[json |-> TRUE, intent |-> "technical_help"],
     [json |-> TRUE, intent |-> "general_info"],
     [json |-> TRUE, intent |-> "small_talk"],
     [json |-> FALSE, intent |-> ""]}

NoUxResponse ==
    [json |-> FALSE, sentiment |-> "", sentiment_confidence |-> 0,
     emotions |-> <<>>, is_successful |-> FALSE]
NoIntentResponse == [json |-> FALSE, intent |-> ""]

\* GroqMapper._default_ux_analysis
default_ux_analysis ==
    [sentiment |-> "neutral", sentiment_confidence |-> default_confidence,
     emotions |-> <<>>, is_successful |-> TRUE]

\* GroqMapper._parse_sentiment
parse_sentiment(sentiment_str) ==
    IF sentiment_str \in SentimentType THEN sentiment_str ELSE "neutral"

\* a parser that rejects the whole response for an unknown emotion
parse_ux_analysis_strict(analysis_text) ==
    IF ~analysis_text.json
           \/ analysis_text.sentiment_confidence \notin 0..confidence_scale
           \/ \E k \in 1..Len(analysis_text.emotions) :
                  analysis_text.emotions[k] \notin EmotionType
    THEN default_ux_analysis
    ELSE [sentiment |-> parse_sentiment(analysis_text.sentiment),
          sentiment_confidence |-> analysis_text.sentiment_confidence,
          emotions |-> analysis_text.emotions,
          is_successful |-> analysis_text.is_successful]

\* GroqMapper._parse_ux_analysis; UX(...) rejects a confidence outside
\* [0, 1], and then the except branch returns the default analysis
parse_ux_analysis(analysis_text) ==
    IF ~analysis_text.json
           \/ analysis_text.sentiment_confidence \notin 0..confidence_scale
    THEN default_ux_analysis
    ELSE [sentiment |-> parse_sentiment(analysis_text.sentiment),
          sentiment_confidence |-> analysis_text.sentiment_confidence,
          emotions |-> SelectSeq(analysis_text.emotions, LAMBDA e : e \in EmotionType),
          is_successful |-> analysis_text.is_successful]

\* GroqMapper._default_request_category
default_request_category ==
    [category |-> <<"other">>, intent |-> <<"general_info">>]

\* GroqMapper._parse_intent_analysis
parse_intent_analysis(analysis_text) ==
    IF ~analysis_text.json
    THEN default_request_category
    ELSE LET intent == IF analysis_text.intent \in IntentType
                       THEN analysis_text.intent ELSE "general_info"
         IN [category |-> <<get_category_for_intent(intent)>>, intent |-> <<intent>>]

\* the error handler with the retry limit one too low
handle_rate_limit_error_short(error, att, retries) ==
    IF error = "rate_limited" /\ att < retries - 2
    THEN [retry |-> TRUE, slept |-> TRUE]
    ELSE [retry |-> FALSE, slept |-> FALSE]

\* an error handler that backs off on every rate limit, whatever the attempt
handle_rate_limit_error_always(error, att, retries) ==
    IF error = "rate_limited"
    THEN [retry |-> TRUE, slept |-> TRUE]
    ELSE [retry |-> FALSE, slept |-> FALSE]

\* GroqMapper._handle_rate_limit_error: True (after sleeping) if the call
\* is to be retried
handle_rate_limit_error(error, att, retries) ==
    IF error = "rate_limited"
    THEN IF att < retries - 1
         THEN [retry |-> TRUE, slept |-> TRUE]
         ELSE [retry |-> FALSE, slept |-> FALSE]
    ELSE [retry |-> FALSE, slept |-> FALSE]

\* problem_eda.create_problem_detection_for_conversation: a ProblemDetector
\* with the default threshold, its problems wrapped in a ProblemDetection
create_problem_detection_for_conversation(conversation) ==
    [problems |-> detect_problems(conversation, default_latency_threshold)]

\* events recorded in trace
CallEvent(phase, outcome, ux, intent) ==
    [phase |-> phase, ev |-> outcome, ux |-> ux, intent |-> intent]
SleepEvent(phase) ==
    [phase |-> phase, ev |-> "sleep", ux |-> NoUxResponse, intent |-> NoIntentResponse]

\* one pass through the body of "for attempt in range(max_retries)" of
\* _analyze_ux: the oracle call, and on error _handle_rate_limit_error
AnalyzeUxAttempt ==
    /\ mpc = "ux"
    /\ \E outcome \in OracleOutcomes : \E response \in UxResponses :
          LET h == handle_rate_limit_error(outcome, attempt, max_retries)
              answered == IF outcome = "ok" THEN response ELSE NoUxResponse
              again == outcome # "ok" /\ h.retry /\ attempt + 1 < max_retries
          IN /\ trace' = Append(trace, CallEvent("ux", outcome, answered, NoIntentResponse))
                           \o (IF outcome # "ok" /\ h.slept
                               THEN <<SleepEvent("ux")>> ELSE <<>>)
             /\ ux_analysis' = IF outcome = "ok" THEN parse_ux_analysis(response)
                               ELSE IF again THEN ux_analysis
                               ELSE default_ux_analysis
             /\ attempt' = IF again THEN attempt + 1 ELSE 0
             /\ mpc' = IF again THEN "ux" ELSE "intent"
    /\ UNCHANGED <<request_category, result, file_entry>>
    /\ UNCHANGED <<pipeVars, parseVars, detVars, ioVars, valVars>>

\* one pass through the body of the retry loop of _analyze_intent
AnalyzeIntentAttempt ==
    /\ mpc = "intent"
    /\ \E outcome \in OracleOutcomes : \E response \in IntentResponses :
          LET h == handle_rate_limit_error(outcome, attempt, max_retries)
              answered == IF outcome = "ok" THEN response ELSE NoIntentResponse
              again == outcome # "ok" /\ h.retry /\ attempt + 1 < max_retries
          IN /\ trace' = Append(trace, CallEvent("intent", outcome, NoUxResponse, answered))
                           \o (IF outcome # "ok" /\ h.slept
                               THEN <<SleepEvent("intent")>> ELSE <<>>)
             /\ request_category' = IF outcome = "ok" THEN parse_intent_analysis(response)
                                    ELSE IF again THEN request_category
                                    ELSE default_request_category
             /\ attempt' = IF again THEN attempt + 1 ELSE 0
             /\ mpc' = IF again THEN "intent" ELSE "build"
    /\ UNCHANGED <<ux_analysis, result, file_entry>>
    /\ UNCHANGED <<pipeVars, parseVars, detVars, ioVars, valVars>>

\* the analysis map_conversation attaches to the copy it returns
map_conversation_returns(conversation, request, ux) ==
    [raised |-> FALSE,
     conversation |->
        [conversation EXCEPT !.analysis =
            [kind |-> "ConversationMap",
             request |-> request,
             problems |-> create_problem_detection_for_conversation(conversation),
             ux |-> ux]]]

\* the rest of map_conversation (problem detection, ConversationMap, copy)
\* and the return through process_conversation_sync
MapReturn ==
    /\ mpc = "build"
    /\ result' = process_conversation_sync(
                     MapperConversation,
                     map_conversation_returns(MapperConversation, request_category,
                                              ux_analysis))
    /\ mpc' = "returned"
    /\ UNCHANGED <<attempt, trace, ux_analysis, request_category, file_entry>>
    /\ UNCHANGED <<pipeVars, parseVars, detVars, ioVars, valVars>>

\* GroqProcessor collects the future and update_conversations_file writes
\* the conversation's entry
GroqPersistOne ==
    /\ mpc = "returned"
    /\ file_entry' = groq_conversation_to_dict(
                   groq_collect([idx |-> 0, st |-> "done", result |-> result],
                                MapperConversation, FALSE).slot)
    /\ mpc' = "persisted"
    /\ UNCHANGED <<attempt, trace, ux_analysis, request_category, result>>
    /\ UNCHANGED <<pipeVars, parseVars, detVars, ioVars, valVars>>

\* ------------------------------------------- ConversationParser (parser.py)
MaxEvents == 3
\* time_threshold_minutes
time_threshold == 30

UserIds == {1, 2}
\* timestamps in minutes; 6 -> 36 is a gap of exactly the threshold
Timestamps == {0, 6, 36}
\* (block_type, block_data) of a CSV row
BlockContents ==
    {[block_type |-> "request", block_data |-> "a"],
     [block_type |-> "response", block_data |-> "a"],
     [block_type |-> "intermidiat_response", block_data |-> "b"]}

\* the rows a CSV file can hold
RawEvents ==
    {[user_id |-> u, timestamp |-> t, block_type |-> c.block_type,
      block_data |-> c.block_data] : u \in UserIds, t \in Timestamps, c \in BlockContents}

\* positions 1..Len(s) in increasing order
Indices(s) == [k \in 1..Len(s) |-> k]

\* Series.unique(): the distinct values in order of first appearance
unique(s) ==
    LET first == SelectSeq(Indices(s), LAMBDA k : \A m \in 1..(k - 1) : s[m] # s[k])
    IN [k \in 1..Len(first) |-> s[first[k]]]

\* sort_values('timestamp') with the default, not stable, algorithm: every
\* order of the row positions with non-decreasing timestamps
sort_values(rows) ==
    {ord \in Permutations(1..Len(rows)) :
        \A a, b \in 1..Len(rows) :
            a < b => rows[ord[a]].timestamp <= rows[ord[b]].timestamp}

\* the condition that starts a new conversation (parser.py:49-50)
new_conversation(prev_row, row) ==
    \/ row.timestamp - prev_row.timestamp > time_threshold
    \/ prev_row.block_type = "response" /\ row.block_type = "request"

\* the inner loop of segment_conversations: dialogue_ids of one user's
\* rows, user_data being sorted by timestamp
user_dialogue_ids(user_data, current_id) ==
    [idx \in 1..Len(user_data) |->
        current_id + Cardinality({m \in 2..idx :
                                     new_conversation(user_data[m - 1], user_data[m])})]

\* the outer loop of segment_conversations over the remaining users;
\* df.loc[user_mask, 'dialogue_id'] = dialogue_ids gives the m-th row of the
\* user IN FILE ORDER the m-th element of dialogue_ids
RECURSIVE segment_users(_, _, _, _, _)
segment_users(users, rows, ord, current_dialogue_id, column) ==
    IF users = <<>> THEN column
    ELSE LET user_id == Head(users)
             sorted == SelectSeq(ord, LAMBDA x : rows[x].user_id = user_id)
             user_data == [k \in 1..Len(sorted) |-> rows[sorted[k]]]
             dialogue_ids == user_dialogue_ids(user_data, current_dialogue_id)
             assigned ==
                 [k \in 1..Len(rows) |->
                     IF rows[k].user_id = user_id
                     THEN dialogue_ids[Cardinality({m \in 1..k : rows[m].user_id = user_id})]
                     ELSE column[k]]
         IN segment_users(Tail(users), rows, ord,
                          dialogue_ids[Len(dialogue_ids)] + 1, assigned)

\* ConversationParser.segment_conversations: the dialogue_id column
segment_conversations(rows, ord) ==
    segment_users(unique([k \in 1..Len(rows) |-> rows[k].user_id]), rows, ord,
                  1, [k \in 1..Len(rows) |-> 0])

\* ConvBlock.from_csv_block (texts of the model are shorter than 150 chars)
from_csv_block(block_data, csv_block_type) ==
    [block_type |-> CASE csv_block_type = "request" -> "user"
                      [] csv_block_type = "response" -> "system"
                      [] csv_block_type = "intermidiat_response" -> "agent"
                      [] OTHER -> "system",
     text |-> block_data]

\* block building that keeps every row
conv_blocks_all(conversation_data) ==
    [k \in 1..Len(conversation_data) |->
        from_csv_block(conversation_data[k].block_data,
                       conversation_data[k].block_type)]

\* parse_conversations, lines 88-98: one ConvBlock per row whose block_data
\* was not seen before in the conversation
conv_blocks(conversation_data) ==
    LET kept == SelectSeq(Indices(conversation_data),
                          LAMBDA k : \A m \in 1..(k - 1) :
                              conversation_data[m].block_data
                                  # conversation_data[k].block_data)
    IN [k \in 1..Len(kept) |->
           from_csv_block(conversation_data[kept[k]].block_data,
                          conversation_data[kept[k]].block_type)]

\* a message count taken from the deduplicated blocks
message_count_of_blocks(conversation_data) == Len(conv_blocks(conversation_data))

\* message_count = len(conversation_data)
message_count_of(conversation_data) == Len(conversation_data)

\* parse_conversations, lines 65-119: the Conversation of one dialogue_id
build_conversation(dialogue_id, rows, column, ord) ==
    LET sorted == SelectSeq(ord, LAMBDA x : column[x] = dialogue_id)
        conversation_data == [k \in 1..Len(sorted) |-> rows[sorted[k]]]
    IN [dialogue_id |-> dialogue_id,
        user_id |-> conversation_data[1].user_id,
        start_time |-> conversation_data[1].timestamp,
        end_time |-> conversation_data[Len(conversation_data)].timestamp,
        message_count |-> message_count_of(conversation_data),
        blocks |-> conv_blocks(conversation_data),
        analysis |-> None]

\* ConversationParser.parse_conversations after segmentation
parse_conversations(rows, column, ord) ==
    LET ids == unique(column)
    IN [k \in 1..Len(ids) |-> build_conversation(ids[k], rows, column, ord)]

\* the parser is not being looked at
ParserOff ==
    /\ ppc = "off"
    /\ df = <<>>
    /\ df_segmented = <<>>
    /\ parsed = <<>>

\* pd.read_csv: one more row of the file
ReadRow(event) ==
    /\ ppc = "reading"
    /\ Len(df) < MaxEvents
    /\ df' = Append(df, event)
    /\ UNCHANGED <<ppc, df_segmented, parsed>>
    /\ UNCHANGED <<pipeVars, mapVars, detVars, ioVars, valVars>>

\* parse_conversations, line 62: df_segmented = self.segment_conversations()
SegmentConversations ==
    /\ ppc = "reading"
    /\ \E ord \in sort_values(df) : df_segmented' = segment_conversations(df, ord)
    /\ ppc' = "segmented"
    /\ UNCHANGED <<df, parsed>>
    /\ UNCHANGED <<pipeVars, mapVars, detVars, ioVars, valVars>>

\* parse_conversations, lines 63-121
ParseConversations ==
    /\ ppc = "segmented"
    /\ \E ord \in sort_values(df) : parsed' = parse_conversations(df, df_segmented, ord)
    /\ ppc' = "parsed"
    /\ UNCHANGED <<df, df_segmented>>
    /\ UNCHANGED <<pipeVars, mapVars, detVars, ioVars, valVars>>

\* ------------------------------ validate_request_category (conversation.py)
MaxListLen == 2

\* categories and intents the oracle's request is drawn from
ModelCategories == {"information", "other", "tech_support"}
ModelIntents == {"general_info", "technical_help", "process_question"}

\* lists of at most n elements of S
ListsUpTo(S, n) == UNION {[1..m -> S] : m \in 0..n}

\* conversation.validate_request_category
validate_request_category(req) ==
    IF req.intent = <<>>
    THEN req
    ELSE LET primary_intent == req.intent[1]
             expected_category == get_category_for_intent(primary_intent)
         IN IF expected_category \notin Range(req.category)
            THEN [req EXCEPT !.category = <<expected_category>>]
            ELSE req

\* validate_request_category is not being looked at
ValidateOff ==
    /\ vpc = "off"
    /\ vrequest = default_request_category
    /\ validated = default_request_category

\* request = validate_request_category(request)
ValidateRequestCategory ==
    /\ vpc = "request"
    /\ validated' = validate_request_category(vrequest)
    /\ vpc' = "validated"
    /\ UNCHANGED vrequest
    /\ UNCHANGED <<pipeVars, mapVars, parseVars, detVars, ioVars>>

\* the detector is not being looked at
DetectorOff ==
    /\ dpc = "off"
    /\ latency_threshold = default_latency_threshold
    /\ dconv = [duration_minutes |-> 0, full_text |-> "a", blocks |-> <<>>]
    /\ dproblems = {}

\* the caller's conversation gets one more block
AddBlock(block) ==
    /\ dpc = "building"
    /\ Len(dconv.blocks) < MaxBlocks
    /\ dconv' = [dconv EXCEPT !.blocks = Append(@, block)]
    /\ UNCHANGED <<dpc, latency_threshold, dproblems>>
    /\ UNCHANGED <<pipeVars, mapVars, parseVars, ioVars, valVars>>

\* problems = detector.detect_problems(conversation)
DetectProblems ==
    /\ dpc = "building"
    /\ dproblems' = detect_problems(dconv, latency_threshold)
    /\ dpc' = "detected"
    /\ UNCHANGED <<latency_threshold, dconv>>
    /\ UNCHANGED <<pipeVars, mapVars, parseVars, ioVars, valVars>>

\* the mapper is not being looked at
MapperOff ==
    /\ mpc = "off"
    /\ attempt = 0
    /\ trace = <<>>
    /\ ux_analysis = default_ux_analysis
    /\ request_category = default_request_category
    /\ result = NoResult
    /\ file_entry = groq_conversation_to_dict(MapperConversation)

Init == InitPipe /\ MapperOff /\ ParserOff /\ DetectorOff /\ ValidateOff

\* one conversation about to be mapped, on a GroqProcessor that is idle
InitMapper ==
    /\ InitPipe
    /\ proc = "groq" /\ batch_size = 1 /\ max_concurrent_requests = 1
    /\ mpc = "ux"
    /\ attempt = 0
    /\ trace = <<>>
    /\ ux_analysis = default_ux_analysis
    /\ request_category = default_request_category
    /\ result = NoResult
    /\ file_entry = groq_conversation_to_dict(MapperConversation)
    /\ ParserOff
    /\ DetectorOff
    /\ ValidateOff

NextMapper ==
    \/ AnalyzeUxAttempt
    \/ AnalyzeIntentAttempt
    \/ MapReturn
    \/ GroqPersistOne

SpecMapper == InitMapper /\ [][NextMapper]_vars

\* a parser about to read its CSV file; pipeline and mapper are idle
InitParser ==
    /\ InitPipe
    /\ proc = "conv" /\ batch_size = 1 /\ max_concurrent_requests = 1
    /\ MapperOff
    /\ ppc = "reading"
    /\ df = <<>>
    /\ df_segmented = <<>>
    /\ parsed = <<>>
    /\ DetectorOff
    /\ ValidateOff

NextParser ==
    \/ \E event \in RawEvents : ReadRow(event)
    \/ SegmentConversations
    \/ ParseConversations

SpecParser == InitParser /\ [][NextParser]_vars

\* a ProblemDetector and a conversation about to be analysed; pipeline,
\* mapper and parser are idle
InitDetector ==
    /\ InitPipe
    /\ proc = "conv" /\ batch_size = 1 /\ max_concurrent_requests = 1
    /\ MapperOff
    /\ ParserOff
    /\ dpc = "building"
    /\ latency_threshold \in LatencyThresholds
    /\ \E d \in DurationsMinutes, t \in {"a", "error"} :
          dconv = [duration_minutes |-> d, full_text |-> t, blocks |-> <<>>]
    /\ dproblems = {}
    /\ ValidateOff

NextDetector ==
    \/ \E block \in DetectorBlocks : AddBlock(block)
    \/ DetectProblems

SpecDetector == InitDetector /\ [][NextDetector]_vars

\* a RequestCategory about to be validated; everything else is idle
InitValidate ==
    /\ InitPipe
    /\ proc = "conv" /\ batch_size = 1 /\ max_concurrent_requests = 1
    /\ MapperOff
    /\ ParserOff
    /\ DetectorOff
    /\ vpc = "request"
    /\ \E c \in ListsUpTo(ModelCategories, MaxListLen),
          n \in ListsUpTo(ModelIntents, MaxListLen) :
          vrequest = [category |-> c, intent |-> n]
    /\ validated = default_request_category

NextValidate == ValidateRequestCategory

SpecValidate == InitValidate /\ [][NextValidate]_vars

Next ==
    \/ \E answer \in {"y", "n"} : ConvStart(answer)
    \/ GroqStart
    \/ SubmitBatch
    \/ \E k \in 1..(MaxBatchSize + NumConversations) : TaskStart(k)
    \/ \E k \in 1..(MaxBatchSize + NumConversations) : TaskFinish(k)
    \/ \E timed_out \in BOOLEAN : Collect(timed_out)
    \/ ConvSaveResults
    \/ ConvSaveProgress
    \/ GroqSaveProgress
    \/ GroqUpdateFile
    \/ Sleep
    \/ Finish
    \/ Crash

Spec == Init /\ [][Next]_vars

\* the run without kills, with the orchestrator and the pool threads
\* scheduled as long as they can take a step
NextLive ==
    \/ \E answer \in {"y", "n"} : ConvStart(answer)
    \/ GroqStart
    \/ SubmitBatch
    \/ \E k \in 1..(MaxBatchSize + NumConversations) : TaskStart(k)
    \/ \E k \in 1..(MaxBatchSize + NumConversations) : TaskFinish(k)
    \/ \E timed_out \in BOOLEAN : Collect(timed_out)
    \/ ConvSaveResults
    \/ ConvSaveProgress
    \/ GroqSaveProgress
    \/ GroqUpdateFile
    \/ Sleep
    \/ Finish

SpecLive == Init /\ [][NextLive]_vars /\ WF_vars(NextLive)

\* the run without kills in which one file operation may fail
NextIO ==
    \/ \E answer \in {"y", "n"} : ConvStart(answer)
    \/ GroqStart
    \/ SubmitBatch
    \/ \E k \in 1..(MaxBatchSize + NumConversations) : TaskStart(k)
    \/ \E k \in 1..(MaxBatchSize + NumConversations) : TaskFinish(k)
    \/ \E timed_out \in BOOLEAN : Collect(timed_out)
    \/ ConvSaveResults
    \/ ConvSaveProgress
    \/ GroqSaveProgress
    \/ GroqUpdateFile
    \/ Sleep
    \/ Finish
    \/ \E fault \in IoFaults : ConvSaveResultsFault(fault)
    \/ \E fault \in IoFaults : SaveProgressFault(fault)
    \/ \E fault \in IoFaults : GroqUpdateFileFault(fault)

SpecIO == Init /\ [][NextIO]_vars

\* ---------------------------------------------- properties of the parser
\* segment_conversations has returned
Segmented == ppc \in {"segmented", "parsed"}

SameUser(a, b) == df[a].user_id = df[b].user_id

\* no two events of one user carry the same timestamp, so that "timestamp
\* order" of a user's events is one order
DistinctTimes ==
    \A a, b \in 1..Len(df) :
        (a # b /\ SameUser(a, b)) => df[a].timestamp # df[b].timestamp

\* the file lists every user's events in timestamp order
FileSortedPerUser ==
    \A a, b \in 1..Len(df) :
        (a < b /\ SameUser(a, b)) => df[a].timestamp < df[b].timestamp

\* b is the event of the same user that follows a in timestamp order
ConsecutiveInTime(a, b) ==
    /\ SameUser(a, b)
    /\ df[a].timestamp < df[b].timestamp
    /\ ~\E c \in 1..Len(df) :
          /\ SameUser(a, c)
          /\ df[a].timestamp < df[c].timestamp
          /\ df[c].timestamp < df[b].timestamp

\* the boundary rule as stated: gap strictly above the threshold, or a
\* response followed by a request
BoundaryRule(a, b) ==
    \/ df[b].timestamp - df[a].timestamp > time_threshold
    \/ df[a].block_type = "response" /\ df[b].block_type = "request"

\* C14: boundary rule: for every user and every pair of consecutive events
\* of that user in timestamp order, the later event gets another
\* dialogue_id exactly when the gap is strictly greater than the threshold
\* or the earlier event is a response and the later one a request;
\* otherwise it keeps the id of the earlier event.
C14_BoundaryRule ==
    (Segmented /\ DistinctTimes) =>
        \A a, b \in 1..Len(df) :
            ConsecutiveInTime(a, b) =>
                (BoundaryRule(a, b) <=> df_segmented[b] # df_segmented[a])

\* the boundary rule does hold when the file already lists each user's
\* events in timestamp order
C14_SortedFile ==
    (Segmented /\ FileSortedPerUser) =>
        \A a, b \in 1..Len(df) :
            ConsecutiveInTime(a, b) =>
                /\ BoundaryRule(a, b) => df_segmented[b] = df_segmented[a] + 1
                /\ ~BoundaryRule(a, b) => df_segmented[b] = df_segmented[a]

\* request@0, response@6, request@36 (gap 30, not above the threshold) in
\* file order: two conversations by the turn rule alone
C14_SortedFileWitness ==
    /\ Segmented /\ FileSortedPerUser /\ Len(df) = 3
    /\ \A k \in 1..3 : df[k].user_id = 1
    /\ df[1].block_type = "request" /\ df[1].timestamp = 0
    /\ df[2].block_type = "response" /\ df[2].timestamp = 6
    /\ df[3].block_type = "request" /\ df[3].timestamp = 36
    /\ df_segmented = <<1, 1, 2>>

\* sum of the message_count values of the conversations k..Len(convs)
RECURSIVE SumMessageCount(_, _)
SumMessageCount(convs, k) ==
    IF k > Len(convs) THEN 0
    ELSE convs[k].message_count + SumMessageCount(convs, k + 1)

\* the rows that carry the dialogue_id of conversation c
RowsOf(c) == {k \in 1..Len(df) : df_segmented[k] = parsed[c].dialogue_id}

\* C15: segmentation partitions the input: every event is in exactly one
\* conversation, the events of a conversation are of one user, the
\* message_count values (raw event counts) sum to the number of events;
\* no events give no conversations, one event gives one conversation with
\* message_count 1.
C15_Partition ==
    ppc = "parsed" =>
        /\ \A k \in 1..Len(df) :
              Cardinality({c \in 1..Len(parsed) :
                              parsed[c].dialogue_id = df_segmented[k]}) = 1
        /\ \A c \in 1..Len(parsed) :
              /\ RowsOf(c) # {}
              /\ \A k \in RowsOf(c) : df[k].user_id = parsed[c].user_id
              /\ parsed[c].message_count = Cardinality(RowsOf(c))
        /\ SumMessageCount(parsed, 1) = Len(df)
        /\ Len(df) = 0 => parsed = <<>>
        /\ Len(df) = 1 => Len(parsed) = 1 /\ parsed[1].message_count = 1

\* three events of two users, one conversation holding a repeated text
C15_Witness ==
    /\ ppc = "parsed" /\ Len(df) = MaxEvents
    /\ \E a, b \in 1..Len(df) : ~SameUser(a, b)
    /\ \E c \in 1..Len(parsed) :
          parsed[c].message_count >= 2
              /\ Len(parsed[c].blocks) < parsed[c].message_count

\* C16: the segmenter sorts internally and does not depend on the order of
\* the rows in the file: every conversation is a time-contiguous run of one
\* user's events (an event of the user that lies in time between two events
\* of a conversation belongs to that conversation).
C16_OrderIndependent ==
    (Segmented /\ DistinctTimes) =>
        \A a, b, c \in 1..Len(df) :
            (/\ SameUser(a, b) /\ SameUser(a, c)
             /\ df_segmented[a] = df_segmented[b]
             /\ df[a].timestamp < df[c].timestamp
             /\ df[c].timestamp < df[b].timestamp)
                => df_segmented[c] = df_segmented[a]

\* position of the user of row a in the order the users are processed
UserRank(a) == Cardinality({df[m].user_id : m \in 1..a})

\* C17: dialogue_ids are unique and globally monotonic: an id belongs to one
\* user and one conversation, along each user's events in timestamp order
\* the id never decreases, and every id of a user processed later is
\* greater than every id of a user processed earlier.
C17_UniqueMonotonicIds ==
    (Segmented /\ DistinctTimes) =>
        /\ \A a, b \in 1..Len(df) :
              df_segmented[a] = df_segmented[b] => SameUser(a, b)
        /\ \A c, d \in 1..Len(parsed) :
              c # d => parsed[c].dialogue_id # parsed[d].dialogue_id
        /\ \A a, b \in 1..Len(df) :
              (SameUser(a, b) /\ df[a].timestamp < df[b].timestamp)
                  => df_segmented[a] <= df_segmented[b]
        /\ \A a, b \in 1..Len(df) :
              (~SameUser(a, b) /\ UserRank(a) < UserRank(b))
                  => df_segmented[a] < df_segmented[b]

\* the parts of C17 that hold for every file: ids are not shared between
\* users or conversations and grow from one user to the next
C17_UniqueAcrossUsers ==
    Segmented =>
        /\ \A a, b \in 1..Len(df) :
              df_segmented[a] = df_segmented[b] => SameUser(a, b)
        /\ \A c, d \in 1..Len(parsed) :
              c # d => parsed[c].dialogue_id # parsed[d].dialogue_id
        /\ \A a, b \in 1..Len(df) :
              (~SameUser(a, b) /\ UserRank(a) < UserRank(b))
                  => df_segmented[a] < df_segmented[b]

\* earliest timestamp among the rows of conversation c with that text
EarliestTime(c, text) ==
    CHOOSE t \in {df[k].timestamp : k \in {m \in RowsOf(c) : df[m].block_data = text}} :
        \A k \in RowsOf(c) : df[k].block_data = text => t <= df[k].timestamp

\* C18: in every Conversation no two Blocks come from events with the same
\* raw text: among the events of the conversation with one text only the
\* earliest by timestamp yields a Block (whatever its kind), and the Blocks
\* are in event timestamp order.
C18_BlockDedup ==
    ppc = "parsed" =>
        \A c \in 1..Len(parsed) :
            LET blocks == parsed[c].blocks
            IN /\ \A x, y \in 1..Len(blocks) : x # y => blocks[x].text # blocks[y].text
               /\ {blocks[x].text : x \in 1..Len(blocks)}
                      = {df[k].block_data : k \in RowsOf(c)}
               /\ \A x \in 1..Len(blocks) :
                     \E k \in RowsOf(c) :
                         /\ df[k].block_data = blocks[x].text
                         /\ df[k].timestamp = EarliestTime(c, blocks[x].text)
                         /\ blocks[x] = from_csv_block(df[k].block_data, df[k].block_type)
               /\ \A x, y \in 1..Len(blocks) :
                     x < y => EarliestTime(c, blocks[x].text)
                                  <= EarliestTime(c, blocks[y].text)

\* a conversation of three events, two of them with the same text and of
\* different kinds, the later one listed first in the file
C18_Witness ==
    /\ ppc = "parsed"
    /\ \E c \in 1..Len(parsed) :
          /\ parsed[c].message_count = 3
          /\ Len(parsed[c].blocks) = 2
          /\ \E a, b \in RowsOf(c) :
                /\ a < b
                /\ df[a].block_data = df[b].block_data
                /\ df[a].block_type # df[b].block_type
                /\ df[a].timestamp > df[b].timestamp

\* ------------------------------- properties of validate_request_category
\* C26: for every request with a non-empty intent list, after validation the
\* category is the table-derived category of the first intent, the list
\* [get_category_for_intent(intent[0])]; a request with an empty intent list
\* is returned unchanged.
C26_CategoryRecomputed ==
    vpc = "validated" =>
        /\ validated.intent = vrequest.intent
        /\ vrequest.intent # <<>> =>
              validated.category = <<get_category_for_intent(vrequest.intent[1])>>
        /\ vrequest.intent = <<>> => validated = vrequest

\* a category list that does not contain the table's category is overwritten,
\* and a request without intents is unchanged
C26_MissingCategoryOverwritten ==
    vpc = "validated" =>
        /\ validated.intent = vrequest.intent
        /\ (/\ vrequest.intent # <<>>
            /\ get_category_for_intent(vrequest.intent[1]) \notin Range(vrequest.category))
              => validated.category = <<get_category_for_intent(vrequest.intent[1])>>
        /\ vrequest.intent = <<>> => validated = vrequest

\* category [other] with first intent technical_help became [tech_support]
C26_MissingCategoryOverwrittenWitness ==
    /\ vpc = "validated"
    /\ vrequest.category = <<"other">>
    /\ vrequest.intent = <<"technical_help", "general_info">>
    /\ validated.category = <<"tech_support">>

\* ------------------------------------------- properties of the checkpoint
\* the orchestrator is inside a run
InRun ==
    pc \in {"loop", "collect", "save_results", "save_progress", "update_file",
            "sleep", "done"}

\* the batch being handled has been checkpointed
BatchCheckpointed ==
    \/ pc = "sleep"
    \/ proc = "groq" /\ pc = "update_file"

\* start_index plus the sizes of the batches this run has checkpointed
CompletedIndex ==
    IF BatchCheckpointed THEN batch_end ELSE Min(i, Len(conversations))

\* the checkpoint is the one of the batches completed so far
CheckpointMatchesRun ==
    InRun =>
        /\ progress_file.exists =>
              /\ progress_file.current_index = CompletedIndex
              /\ progress_file.current_index <= progress_file.total_count
              /\ progress_file.total_count = Len(conversations)
        /\ CompletedIndex > start_index => progress_file.exists
        /\ \E n \in 0..NumConversations :
              CompletedIndex = Min(start_index + n * batch_size, Len(conversations))
        /\ (pc = "done" /\ progress_file.exists) =>
              progress_file.current_index = progress_file.total_count

\* a checkpoint write of the run moves current_index forward
CheckpointAdvances ==
    (InRun /\ progress_file' # progress_file /\ progress_file'.exists) =>
        /\ progress_file'.current_index > start_index
        /\ progress_file.exists =>
              progress_file'.current_index > progress_file.current_index

\* C28: within one run started at start_index <= len(conversations), the
\* checkpoint's current_index strictly increases with every batch, always
\* equals start_index plus the sizes of the batches completed so far, never
\* exceeds total_count, and equals total_count when the run completes.
C28_CheckpointMonotonic ==
    []CheckpointMatchesRun /\ [][CheckpointAdvances]_vars

\* a run resumed at index 2 of 3 has completed: its last, partial batch moved
\* the checkpoint from 2 to 3
C28_Witness ==
    /\ pc = "done"
    /\ crashes = 1
    /\ batch_size = 2
    /\ start_index = 2
    /\ progress_file.exists
    /\ progress_file.current_index = NumConversations
    /\ progress_file.total_count = NumConversations

\* -------------------------------------------- properties of record order
\* ConversationProcessor: the records collected and stored follow the input
BatchInInputOrder ==
    (proc = "conv" /\ pc \in {"collect", "save_results"}) =>
        /\ Len(batch_processed) = j
        /\ \A k \in 1..Len(batch_processed) :
              batch_processed[k].dialogue_id = batch[k].dialogue_id

\* ConversationProcessor: a complete fresh run stored record p at position p
CompleteFreshRunInOrder ==
    (proc = "conv" /\ pc = "done" /\ start_index = 0) =>
        HoldsExactlyFirst(results_file, Len(conversations))

\* GroqProcessor: one slot per input conversation, each for its conversation
SlotsMatchInput ==
    /\ Len(conversations_file.conversations) = NumConversations
    /\ Len(updated_conversations) = NumConversations
    /\ \A p \in 1..NumConversations :
          /\ conversations_file.conversations[p].dialogue_id = DialogueId(p)
          /\ updated_conversations[p].dialogue_id = DialogueId(p)

\* GroqProcessor: collecting futures[j] of the batch at i touches slot i + j only
OnlyOwnSlotWritten ==
    (proc = "groq" /\ pc = "collect") =>
        \A p \in 1..NumConversations :
            p # i + j + 1 => updated_conversations'[p] = updated_conversations[p]

\* C29: the result store preserves input order whatever the order in which
\* worker tasks finish: after a complete fresh ConversationProcessor run the
\* record at position p is the conversation at input position p; in
\* GroqProcessor the outcome of the j-th task of the batch starting at i is
\* written only to slot i + j, and the store always holds as many records as
\* there are input conversations.
C29_InputOrderPreserved ==
    /\ [](BatchInInputOrder /\ CompleteFreshRunInOrder /\ SlotsMatchInput)
    /\ [][OnlyOwnSlotWritten]_vars

\* the second task of a batch finished while the first was still running and
\* was waited for in vain; the first record collected is the first conversation
C29_Witness ==
    /\ proc = "conv"
    /\ pc = "collect"
    /\ Len(batch) = 2
    /\ j = 1
    /\ Future(0).st # "done"
    /\ Future(1).st = "done"
    /\ Len(batch_processed) = 1
    /\ batch_processed[1].dialogue_id = batch[1].dialogue_id

\* a complete fresh run of more than one batch, every record in its place
C29_CompleteRunWitness ==
    /\ proc = "conv" /\ pc = "done" /\ start_index = 0
    /\ batch_size < NumConversations
    /\ HoldsExactlyFirst(results_file, NumConversations)

\* ------------------------------------------ properties of the batch counts
\* the collection loop of the current batch has ended
BatchCollected ==
    /\ pc \in {"save_results", "save_progress", "update_file", "sleep"}
    /\ j = Len(batch)
    /\ Len(observed) = Len(batch)

\* the tasks of the batch whose outcome is Success: the wait did not time out
\* and the task returned an annotated conversation
SuccessOutcomes ==
    {k \in 0..(Len(batch) - 1) :
        /\ observed[k + 1] # "timeout"
        /\ Future(k).result.success
        /\ Future(k).result.conversation.analysis # None}

\* C25: each batch's counts account for every task: successful_count +
\* failed_count equals the batch size, and a conversation is counted as
\* successful exactly when its outcome is Success (an annotated conversation);
\* one whose oracle call failed, which the mappers return unannotated, is
\* counted as a failure.
C25_CountsMatchOutcomes ==
    BatchCollected =>
        /\ successful_count + failed_count = Len(batch)
        /\ successful_count = Cardinality(SuccessOutcomes)

\* the counts do account for every task of the batch
C25_CountsSumToBatchSize ==
    /\ pc = "collect" => successful_count + failed_count = j
    /\ BatchCollected => successful_count + failed_count = Len(batch)

\* a batch of two with one task counted successful and one counted failed
C25_CountsSumToBatchSizeWitness ==
    /\ BatchCollected
    /\ Len(batch) = 2
    /\ successful_count = 1
    /\ failed_count = 1

\* ------------------------------------------- properties of a fresh start
\* a ConversationProcessor run that started at index 0
FreshRun ==
    /\ proc = "conv"
    /\ start_index = 0
    /\ pc \in {"loop", "collect", "save_results", "save_progress", "sleep", "done"}

\* how many conversations this run has persisted / checkpointed so far
SavedThisRun ==
    IF pc \in {"save_progress", "sleep"} THEN batch_end
    ELSE Min(i, Len(conversations))
CheckpointedThisRun ==
    IF pc = "sleep" THEN batch_end ELSE Min(i, Len(conversations))

\* C24: starting fresh discards the prior checkpoint and result store: in a
\* ConversationProcessor run that starts at index 0 (no checkpoint found, or
\* the user declined to resume), from the first persisted batch on the result
\* store holds the records of this run only, and the only checkpoint a later
\* resume can read is one this run wrote.
C24_FreshStartDiscards ==
    FreshRun =>
        /\ SavedThisRun > 0 => HoldsExactlyFirst(results_file, SavedThisRun)
        /\ progress_file.exists =>
              /\ CheckpointedThisRun > 0
              /\ progress_file.current_index = CheckpointedThisRun

\* the user declined to resume a run that had checkpointed two conversations;
\* the new run has stored and checkpointed its first batch of one
C24_Witness ==
    /\ FreshRun
    /\ discarded.progress.exists /\ discarded.progress.current_index = 2
    /\ Len(discarded.results.conversations) = 2
    /\ pc = "sleep"
    /\ Len(results_file.conversations) = 1
    /\ progress_file.exists /\ progress_file.current_index = 1

\* ------------------------------------------------ properties of timeouts
\* the orchestrator's wait on futures[j] can only time out
WaitTimesOut == pc = "collect" /\ j < Len(batch) /\ Future(j).st # "done"

\* when the loop moves past it, the timed-out conversation is recorded once,
\* as a failure, as it came in
TimeoutRecordedAsFailure ==
    (WaitTimesOut /\ j' = j + 1) =>
        /\ failed_count' = failed_count + 1
        /\ successful_count' = successful_count
        /\ proc = "conv" =>
              batch_processed' = Append(batch_processed,
                                        [dialogue_id |-> batch[j + 1].dialogue_id,
                                         analysis |-> None])
        /\ proc = "groq" => updated_conversations' = updated_conversations

\* conversations whose futures have been collected by the run so far
CollectedUpTo ==
    IF pc = "collect" THEN i + j
    ELSE IF pc \in {"save_results", "save_progress", "update_file", "sleep"}
    THEN batch_end
    ELSE Min(i, Len(conversations))

\* a task the orchestrator gave up waiting for produces its result
LateResult ==
    /\ InRun
    /\ Len(work') = Len(work)
    /\ \E k \in 1..Len(work) :
          /\ work[k].idx < CollectedUpTo
          /\ work[k].st # "done"
          /\ work'[k].st = "done"

\* such a result changes neither the store nor what is about to be stored
LateResultNotWritten ==
    LateResult =>
        UNCHANGED <<results_file, conversations_file, progress_file,
                    batch_processed, updated_conversations, successful_count,
                    failed_count>>

\* the records ConversationProcessor has stored in this run
RunRecords ==
    LET n == SavedThisRun - start_index
        len == Len(results_file.conversations)
    IN SubSeq(results_file.conversations, len - n + 1, len)

\* this run stored every conversation it handled once, in input order
RunRecordsOnce ==
    (proc = "conv" /\ InRun /\ SavedThisRun > start_index) =>
        /\ Len(RunRecords) = SavedThisRun - start_index
        /\ \A k \in 1..Len(RunRecords) :
              RunRecords[k].dialogue_id = DialogueId(start_index + k)

Store ==
    IF proc = "conv" THEN results_file.conversations
    ELSE conversations_file.conversations

\* C23: a failure while reading or writing the result store or the checkpoint
\* terminates the run, and afterwards the store holds exactly the records it
\* held before the failing operation: none lost, none replaced, no part of a
\* batch added.
C23_FailureTerminatesStoreIntact ==
    io_fault # "none" => (pc = "failed" /\ Store = store_before)

\* failures that raise before anything was written: opening a file for
\* writing, GroqProcessor reading its store back
RaisedBeforeWrite ==
    \/ io_fault = "open"
    \/ io_fault = "read" /\ proc = "groq"

\* those failures do terminate the run and leave the store as it was
C23_RaisedBeforeWrite ==
    RaisedBeforeWrite => (pc = "failed" /\ Store = store_before)

\* a later batch could not be written: the first batch is still stored
C23_RaisedBeforeWriteWitness ==
    /\ RaisedBeforeWrite
    /\ pc = "failed"
    /\ i > 0
    /\ proc = "conv"
    /\ Len(results_file.conversations) > 0
    /\ Store = store_before

\* -------------------------------------------- properties of the detector
\* C21: detect_problems includes PERFORMANCE_LATENCY exactly when the
\* conversation's duration in seconds (duration_minutes * 60) exceeds the
\* latency threshold, whatever roles its blocks have.
C21_LatencyDetection ==
    dpc = "detected" =>
        ("performance_latency" \in dproblems
            <=> dconv.duration_minutes * seconds_per_minute > latency_threshold)

\* the conversation has no blocks, or a user block and a system block
HasUserAndSystemOrNoBlocks ==
    \/ dconv.blocks = <<>>
    \/ /\ \E k \in 1..Len(dconv.blocks) : dconv.blocks[k].block_type = "user"
       /\ \E k \in 1..Len(dconv.blocks) : dconv.blocks[k].block_type = "system"

\* the latency rule does hold for conversations without blocks and for
\* conversations with both a user block and a system block
C21_WithUserAndSystem ==
    (dpc = "detected" /\ HasUserAndSystemOrNoBlocks) =>
        ("performance_latency" \in dproblems
            <=> dconv.duration_minutes * seconds_per_minute > latency_threshold)

\* 15 minutes, threshold 10 s, a user and a system block: latency reported
C21_WithUserAndSystemWitness ==
    /\ dpc = "detected"
    /\ dconv.duration_minutes = 15 /\ latency_threshold = default_latency_threshold
    /\ Len(dconv.blocks) = 2
    /\ HasUserAndSystemOrNoBlocks
    /\ "performance_latency" \in dproblems

\* the conversation a stored entry was made from
ConversationOf(entry) ==
    CHOOSE c \in Range(ParsedConversations) : c.dialogue_id = entry.dialogue_id

\* C22: for every conversation processed by the pipeline the keyword detector
\* runs and its problem set is part of the persisted analysis, whatever the
\* oracle outcome and whichever backend is configured; here for the records
\* ConversationProcessor persists for the mappers of create_mapper.
C22_DetectorAlwaysMerged ==
    \A k \in 1..Len(results_file.conversations) :
        LET entry == results_file.conversations[k]
        IN /\ entry.analysis # None
           /\ detect_problems(ConversationOf(entry), default_latency_threshold)
                 \subseteq entry.analysis.problems.problems

\* with GroqMapper under GroqProcessor the persisted entry holds exactly the
\* detector's problems, whatever the oracle calls did
C22_GroqBackend ==
    mpc = "persisted" =>
        /\ file_entry.analysis # None
        /\ file_entry.analysis.problems.problems
              = detect_problems(MapperConversation, default_latency_threshold)

\* every oracle call failed, and the keyword and latency problems are stored
C22_GroqBackendWitness ==
    /\ mpc = "persisted"
    /\ Len(trace) > 0
    /\ \A k \in 1..Len(trace) : trace[k].ev # "ok"
    /\ file_entry.analysis # None
    /\ file_entry.analysis.problems.problems
          = {"technical_issues", "performance_latency"}

\* ---------------------------------------------- properties of the mapper
\* the oracle calls made so far, in order
Calls == SelectSeq(trace, LAMBDA e : e.ev # "sleep")
PhaseCalls(phase) == SelectSeq(trace, LAMBDA e : e.phase = phase /\ e.ev # "sleep")
\* the number of backoff sleeps so far
Sleeps == Len(SelectSeq(trace, LAMBDA e : e.ev = "sleep"))

\* the retry loop of that phase gave up on an oracle error
PhaseFailed(phase) ==
    LET c == PhaseCalls(phase)
    IN Len(c) > 0 /\ c[Len(c)].ev # "ok"

\* the events of one retry loop, and its backoff sleeps
PhaseEvents(phase) == SelectSeq(trace, LAMBDA e : e.phase = phase)
PhaseSleeps(phase) ==
    Len(SelectSeq(trace, LAMBDA e : e.phase = phase /\ e.ev = "sleep"))

\* the retry loop of that phase has been left
PhaseEnded(phase) ==
    IF phase = "ux" THEN mpc \notin {"off", "ux"}
    ELSE mpc \notin {"off", "ux", "intent"}

\* C27: each retry loop ends after at most max_retries oracle calls and at
\* most max_retries - 1 backoff sleeps and never sleeps after its last
\* attempt; map_conversation returns after at most 2 * max_retries oracle
\* calls.
C27_BoundedRetries ==
    /\ \A phase \in {"ux", "intent"} :
          /\ Len(PhaseCalls(phase)) <= max_retries
          /\ PhaseSleeps(phase) <= max_retries - 1
          /\ PhaseSleeps(phase) <= Len(PhaseCalls(phase))
          /\ (PhaseEnded(phase) /\ PhaseEvents(phase) # <<>>)
                => PhaseEvents(phase)[Len(PhaseEvents(phase))].ev # "sleep"
    /\ mpc \in {"ux", "intent"} => attempt < max_retries
    /\ Len(Calls) <= 2 * max_retries

\* both loops used all their attempts: 6 calls, 4 sleeps, and the call returned
C27_Witness ==
    /\ mpc = "returned"
    /\ Len(PhaseCalls("ux")) = max_retries
    /\ Len(PhaseCalls("intent")) = max_retries
    /\ PhaseSleeps("ux") = max_retries - 1
    /\ PhaseSleeps("intent") = max_retries - 1
    /\ Len(Calls) = 2 * max_retries

\* C6: a conversation for which the oracle calls failed (rate-limit retries
\* exhausted, timeout or other error) is persisted in the unanalyzed state
\* (analysis None), never with an Analysis that a genuine successful
\* response could have produced.
C6_FailedIsUnanalyzed ==
    (mpc = "persisted" /\ (PhaseFailed("ux") \/ PhaseFailed("intent")))
        => file_entry.analysis = None

\* C7: with an oracle that always answers rate_limited, one conversation
\* takes exactly max_retries attempts and yields a Failure with the
\* conversation returned unmodified.
C7_RetryExhaustion ==
    (mpc = "returned" /\ \A k \in 1..Len(Calls) : Calls[k].ev = "rate_limited")
        => /\ Len(Calls) = max_retries
           /\ ~result.success
           /\ result.conversation = MapperConversation

\* the oracle answered rate_limited twice and then succeeded on every call
RateLimitedTwiceThenOk ==
    /\ Len(Calls) >= 3
    /\ Calls[1].ev = "rate_limited"
    /\ Calls[2].ev = "rate_limited"
    /\ \A k \in 3..Len(Calls) : Calls[k].ev = "ok"

\* C8: an oracle that answers rate_limited on its first two calls and
\* succeeds afterwards yields Success, the analysis being built from the
\* oracle's responses, with exactly 2 backoff sleeps.
C8_RetrySuccess ==
    (mpc = "returned" /\ RateLimitedTwiceThenOk) =>
        /\ result.success
        /\ Sleeps = 2
        /\ Len(Calls) = 4
        /\ result.conversation.analysis.kind = "ConversationMap"
        /\ result.conversation.analysis.ux = parse_ux_analysis(Calls[3].ux)
        /\ result.conversation.analysis.request = parse_intent_analysis(Calls[4].intent)

\* two rate limits, then a well-formed UX answer that is kept as given
C8_Witness ==
    /\ mpc = "returned" /\ RateLimitedTwiceThenOk
    /\ Sleeps = 2
    /\ Calls[3].ux.json /\ Calls[3].ux.sentiment = "positive"
    /\ result.conversation.analysis.ux.sentiment = "positive"
    /\ result.conversation.analysis.request.intent = <<"technical_help">>

\* C9: an oracle error that is not rate limiting ends the retry loop at
\* once, with no backoff sleep and no further attempt of that call, and
\* the conversation is reported as a Failure.
C9_AbortWithoutRetry ==
    (mpc = "returned"
        /\ \E k \in 1..Len(trace) : trace[k].ev \in {"timeout", "other"}) =>
        /\ \A k \in 1..Len(trace) :
              trace[k].ev \in {"timeout", "other"} =>
                  \A m \in (k + 1)..Len(trace) : trace[m].phase # trace[k].phase
        /\ ~result.success
        /\ result.conversation = MapperConversation

\* the part of C9 the retry loops do satisfy: a timeout or other error is
\* the last thing that happens in its loop
C9_LoopAbortsAtOnce ==
    \A k \in 1..Len(trace) :
        trace[k].ev \in {"timeout", "other"} =>
            \A m \in (k + 1)..Len(trace) : trace[m].phase # trace[k].phase


\* the answer to the last oracle call of that phase
LastResponse(phase) == PhaseCalls(phase)[Len(PhaseCalls(phase))]

\* map_conversation returned a copy with an Analysis attached
AnalysisAttached ==
    /\ mpc \in {"returned", "persisted"}
    /\ result.conversation.analysis.kind = "ConversationMap"

\* C19: for every Analysis that map_conversation attaches, built from a
\* parsed oracle response or from the default used when the intent call or
\* its parsing fails, request.category is the table-derived category of the
\* first intent.
C19_CategoryFromTable ==
    AnalysisAttached =>
        result.conversation.analysis.request.category
            = <<get_category_for_intent(result.conversation.analysis.request.intent[1])>>

\* the part of C19 that holds: an intent response that parses as JSON gives
\* the table's category, also when its intent is outside the enumeration
C19_ParsedResponse ==
    (AnalysisAttached /\ ~PhaseFailed("intent") /\ LastResponse("intent").intent.json) =>
        result.conversation.analysis.request.category
            = <<get_category_for_intent(result.conversation.analysis.request.intent[1])>>

\* the oracle answered the UX prompt with text that parses as JSON
UxAnswered ==
    /\ AnalysisAttached
    /\ ~PhaseFailed("ux")
    /\ LastResponse("ux").ux.json

\* the emotions of a response that are in the enumeration, in order
ValidEmotions(response) == SelectSeq(response.emotions, LAMBDA e : e \in EmotionType)

\* C20: response validation tolerates partial malformation: when a UX
\* response holds an unknown sentiment or emotion or another invalid field,
\* only the invalid values are dropped, parsing does not fail, and the
\* Analysis keeps every valid field of the response.
C20_PartialMalformation ==
    UxAnswered =>
        LET response == LastResponse("ux").ux
            ux == result.conversation.analysis.ux
        IN /\ response.sentiment \in SentimentType => ux.sentiment = response.sentiment
           /\ response.sentiment_confidence \in 0..confidence_scale
                  => ux.sentiment_confidence = response.sentiment_confidence
           /\ ux.emotions = ValidEmotions(response)
           /\ ux.is_successful = response.is_successful

\* the part of C20 that holds: with a confidence inside [0, 1], unknown
\* sentiments and emotions are dropped and every other field is kept
C20_ClosedVocabulary ==
    (UxAnswered /\ LastResponse("ux").ux.sentiment_confidence \in 0..confidence_scale) =>
        LET response == LastResponse("ux").ux
            ux == result.conversation.analysis.ux
        IN /\ response.sentiment \in SentimentType => ux.sentiment = response.sentiment
           /\ ux.sentiment \in SentimentType
           /\ ux.sentiment_confidence = response.sentiment_confidence
           /\ ux.emotions = ValidEmotions(response)
           /\ ux.is_successful = response.is_successful

\* a response with an unknown sentiment and an unknown emotion was parsed
\* and its valid emotion, confidence and success flag were kept
C20_ClosedVocabularyWitness ==
    /\ UxAnswered
    /\ LastResponse("ux").ux.sentiment = "angry"
    /\ result.conversation.analysis.ux.emotions = <<"frustration">>
    /\ ~result.conversation.analysis.ux.is_successful

\* ------------------------------------------------------------ properties
\* 1-based positions of the conversations that have a record in results_file
StoredPositions ==
    {p \in 1..NumConversations :
        \E k \in 1..Len(results_file.conversations) :
            results_file.conversations[k].dialogue_id = DialogueId(p)}

\* number of conversations whose results are persisted
PersistedCount ==
    IF proc = "conv" THEN Cardinality(StoredPositions) ELSE Cardinality(written)

\* C1: the checkpoint is written only after the batch's results are in the
\* result store: in every state the checkpoint's current_index is at most
\* the number of conversations whose results are persisted.
C1_CheckpointAfterResults ==
    progress_file.exists => progress_file.current_index <= PersistedCount

\* the part of C1 that ConversationProcessor satisfies on its own
C1_ConvOnly ==
    (proc = "conv" /\ progress_file.exists)
        => progress_file.current_index <= PersistedCount

\* the kill happened inside a batch, before that batch's checkpoint write
KilledBeforeCheckpoint ==
    /\ pc = "crashed"
    /\ crashed_at \in {"collect", "save_results", "save_progress"}

\* 0-based indices of the conversations whose outcome is in the result store
PersistedIndices ==
    IF proc = "conv" THEN {p - 1 : p \in StoredPositions} ELSE written

\* where a run resumed from the checkpoint starts
ResumePoint == IF progress_file.exists THEN progress_file.current_index ELSE 0

\* C2: batch atomicity: after a kill before a batch's checkpoint write the
\* result store holds only records of the batches completed before it, none
\* of the interrupted batch, and a resumed run redoes the whole batch.
C2_BatchAtomicity ==
    KilledBeforeCheckpoint =>
        /\ \A x \in PersistedIndices : x < i
        /\ ResumePoint <= i

\* no two records of a list carry the same dialogue_id
DistinctDialogueIds(records) ==
    \A a, b \in 1..Len(records) :
        a # b => records[a].dialogue_id # records[b].dialogue_id

\* C3: resume idempotence: a run entered with start_index = k and a result
\* store holding exactly the records of conversations 0..k-1 ends with
\* exactly len(conversations) records with pairwise distinct dialogue_ids.
C3_ResumeIdempotence ==
    (proc = "conv" /\ pc = "done" /\ resume_consistent) =>
        /\ Len(results_file.conversations) = Len(conversations)
        /\ DistinctDialogueIds(results_file.conversations)

\* a resumed run (k > 0, after a kill) that met the precondition and completed
C3_Witness ==
    /\ proc = "conv" /\ pc = "done" /\ resume_consistent
    /\ crashes > 0 /\ start_index > 0 /\ start_index < Len(conversations)
    /\ Len(results_file.conversations) = Len(conversations)

\* C4: at-least-once: when a sequence of runs, kills and resumes ends with a
\* completed run, every conversation has had its outcome persisted.
C4_AtLeastOnce ==
    pc = "done" => \A x \in 0..(NumConversations - 1) : x \in PersistedIndices

\* the records save_results appended for the current batch
LastBatchRecords ==
    SubSeq(results_file.conversations,
           Len(results_file.conversations) - Len(batch) + 1,
           Len(results_file.conversations))

\* C5: after a ConversationProcessor batch is stored the result store holds
\* a record for every conversation of the batch, whatever its task did; a
\* failed or timed-out one is the original conversation with analysis None.
C5_NoConversationLost ==
    (proc = "conv" /\ pc \in {"save_progress", "sleep"}) =>
        /\ Len(results_file.conversations) >= Len(batch)
        /\ Len(observed) = Len(batch)
        /\ \A k \in 1..Len(batch) :
              /\ LastBatchRecords[k].dialogue_id = batch[k].dialogue_id
              /\ observed[k] # "success" => LastBatchRecords[k].analysis = None

\* a stored batch of two with one timed-out and one failed task
C5_Witness ==
    /\ proc = "conv" /\ pc = "sleep"
    /\ Len(batch) = 2
    /\ "timeout" \in Range(observed)
    /\ "failed" \in Range(observed)
    /\ Len(results_file.conversations) >= 2

\* C11: bounded concurrency: at every moment the number of conversation
\* tasks executing at the same time is at most max_concurrent_requests,
\* tasks still running after their 120 s wait timed out included.
C11_BoundedConcurrency ==
    Cardinality(Running) <= max_concurrent_requests

\* the pool is full, one of its tasks is a timed-out task of an earlier
\* batch, and a task of the current batch has to wait in the queue
C11_Witness ==
    /\ pc = "collect"
    /\ max_concurrent_requests = MaxWorkers
    /\ Cardinality(Running) = max_concurrent_requests
    /\ \E k \in 1..base : work[k].st = "running"
    /\ \E k \in (base + 1)..Len(work) : work[k].st = "queued"

\* C12: batches are processed strictly sequentially: no task of the next
\* batch is submitted until every task of the batch before it was seen to
\* succeed, fail or time out and that batch's result-store write and
\* checkpoint write have finished.
C12_SequentialBatches ==
    [][(pc = "loop" /\ pc' = "collect") =>
          \/ i = start_index
          \/ /\ Len(observed) = batch_size
             /\ progress_file.exists
             /\ progress_file.current_index = i
             /\ \A x \in (i - batch_size)..(i - 1) : x \in PersistedIndices]_vars

\* a second batch has been submitted while a timed-out task of the first
\* batch is still in the pool
C12_Witness ==
    /\ pc = "collect" /\ j = 0
    /\ i > start_index
    /\ base > 0
    /\ progress_file.exists /\ progress_file.current_index = i

\* some file of the pipeline is written (or removed) in this step
FilesChanged ==
    \/ results_file' # results_file
    \/ progress_file' # progress_file
    \/ conversations_file' # conversations_file

\* the step is one write of the orchestrator after the batch was collected
OrchestratorWrite ==
    /\ pc \in {"save_results", "save_progress", "update_file"}
    /\ j = Len(batch)
    /\ Len(observed) = Len(batch)
    /\ work' = work
    /\ Cardinality({f \in {"results", "progress", "conversations"} :
                        \/ f = "results" /\ results_file' # results_file
                        \/ f = "progress" /\ progress_file' # progress_file
                        \/ f = "conversations"
                              /\ conversations_file' # conversations_file}) = 1

\* C13: the checkpoint file and the result store are written only by the
\* orchestrating thread, after the batch's futures have been collected: a
\* worker task writes neither, and no two writes happen at the same time.
\* (Before a run starts, with no worker alive, the resume prompt may remove
\* the files.)
C13_OnlyOrchestratorWrites ==
    [][FilesChanged =>
          \/ pc \in {"idle", "crashed"} /\ work = <<>>
          \/ OrchestratorWrite]_vars

\* the result store has been written while a worker task was still running
C13_Witness ==
    /\ proc = "conv" /\ pc = "save_progress"
    /\ results_file.exists
    /\ Running # {}
    /\ \E k \in 1..Len(work) : work[k].st = "done"

\* C10: an oracle failure never aborts a batch: whatever the tasks of a
\* batch do, nothing propagates out of the collection loop and the batch
\* goes on to its result-store write, its checkpoint write and the next
\* iteration of the batch loop.
C10_NeverAbortsBatch ==
    /\ [](pc # "aborted")
    /\ (pc = "collect") ~> (pc = "loop" /\ progress_file.exists
                              /\ progress_file.current_index = total_processed)

\* a batch with a timed-out and a failed task was checkpointed and the loop
\* went on
C10_Witness ==
    /\ pc = "loop" /\ i > start_index
    /\ "timeout" \in Range(observed)
    /\ "failed" \in Range(observed)
    /\ progress_file.exists /\ progress_file.current_index = Min(i, Len(conversations))

====
